---- MODULE Spec2Model ----
(***************************************************************************)
(* A model of cotk's reflection utilities and of the small contracts       *)
(* around them:                                                            *)
(*   - LoadClassInterface.get_all_subclasses / load_class                  *)
(*       (cotk/_utils/metaclass.py)                          -> SpecLoad   *)
(*   - DocStringInheritor.__new__ (cotk/_utils/metaclass.py) -> SpecDoc    *)
(*   - SingleTurnDialog.__init__                                           *)
(*       (cotk/dataloader/single_turn_dialog.py)             -> SpecDialog *)
(*   - replace_unk (cotk/_utils/utils.py)                    -> SpecUnk    *)
(*   - the CLI's config set/show/load                                      *)
(*       (tests/scripts/test_scripts.py)                     -> SpecConfig *)
(*                                                                         *)
(* Python strings are sequences of one-character strings, so that          *)
(* str.lower, the regular expressions and str.join are computed and not    *)
(* assumed.  Classes are numbered in definition order; 0 is `object`.      *)
(***************************************************************************)
EXTENDS Integers, Sequences, FiniteSets, TLC

VARIABLES
  lcReg,     \* the classes below LoadClassInterface
  lcResult,  \* the outcome of the last class statement or load_class call
  reg,       \* the classes defined with (or beside) DocStringInheritor
  last,      \* the outcome of the last class statement
  dlg,       \* the SingleTurnDialog under construction
  unk,       \* the arguments and the result of replace_unk
  cfg,       \* the CLI's stored configuration
  cfgOut     \* what the last config command printed or returned

vars == <<lcReg, lcResult, reg, last, dlg, unk, cfg, cfgOut>>

\* the variables an action of one component leaves alone
notLoad == <<reg, last, dlg, unk, cfg, cfgOut>>
notDoc == <<lcReg, lcResult, dlg, unk, cfg, cfgOut>>
notDialog == <<lcReg, lcResult, reg, last, unk, cfg, cfgOut>>
notUnk == <<lcReg, lcResult, reg, last, dlg, cfg, cfgOut>>
notConfig == <<lcReg, lcResult, reg, last, dlg, unk>>

----------------------------------------------------------------------------
(* Bounds of the model.                                                    *)

\* classes defined below LoadClassInterface
MaxSubclasses == 3
\* bases one class statement lists
MaxBases == 2
\* classes created through DocStringInheritor
MaxDocClasses == 2
\* classes created without the metaclass (mix-ins)
MaxPlainClasses == 1
\* sentences given to replace_unk, and tokens of one sentence
MaxSentences == 2
MaxSentenceLen == 2
\* values one `config set` command takes
MaxValues == 2
\* rounds of one substitution loop that are followed before the docstring is
\* taken to grow for ever
MaxRounds == 6

----------------------------------------------------------------------------
(* Characters and str.lower.                                               *)

UpperChars ==
  <<"A","B","C","D","E","F","G","H","I","J","K","L","M",
    "N","O","P","Q","R","S","T","U","V","W","X","Y","Z">>

LowerChars ==
  <<"a","b","c","d","e","f","g","h","i","j","k","l","m",
    "n","o","p","q","r","s","t","u","v","w","x","y","z">>

IsUpper(c) == \E i \in 1..Len(UpperChars) : UpperChars[i] = c

\* str.lower on one character: upper-case letters are mapped, the rest kept
LowerChar(c) ==
  IF IsUpper(c)
    THEN LowerChars[CHOOSE i \in 1..Len(UpperChars) : UpperChars[i] = c]
    ELSE c

\* str.lower
Lower(s) == [i \in 1..Len(s) |-> LowerChar(s[i])]

----------------------------------------------------------------------------
(* Python's method resolution order (C3), as type.__new__ computes it.     *)
(* A class is a record with fields name, bases (a sequence of class        *)
(* numbers) and mro (the linearisation, ending with 0 = object).           *)

Range(s) == {s[i] : i \in 1..Len(s)}

Tail0(s) == IF s = <<>> THEN <<>> ELSE Tail(s)

NonEmpty(lists) == SelectSeq(lists, LAMBDA l : l # <<>>)

\* the heads that appear in no list's tail
GoodHeads(lists) ==
  {i \in 1..Len(lists) :
     \A j \in 1..Len(lists) : lists[i][1] \notin Range(Tail0(lists[j]))}

RECURSIVE C3Merge(_)
\* the merge of C3; <<-1>> stands for "no consistent order" (TypeError)
C3Merge(lists) ==
  LET ls == NonEmpty(lists) IN
  IF ls = <<>> THEN <<>>
  ELSE IF GoodHeads(ls) = {} THEN <<-1>>
  ELSE LET i    == CHOOSE k \in GoodHeads(ls) : \A m \in GoodHeads(ls) : k <= m
           h    == ls[i][1]
           rest == C3Merge([k \in 1..Len(ls) |->
                              IF ls[k][1] = h THEN Tail(ls[k]) ELSE ls[k]])
       IN  IF rest = <<-1>> THEN <<-1>> ELSE <<h>> \o rest

\* the mro of object
ObjectMro == <<0>>

MroOf(registry, c) == IF c = 0 THEN ObjectMro ELSE registry[c].mro

\* the mro of a new class numbered n with the bases given; a class statement
\* without bases derives from object
NewMro(registry, n, bases) ==
  LET bs == IF bases = <<>> THEN <<0>> ELSE bases
      m  == C3Merge([k \in 1..Len(bs) |-> MroOf(registry, bs[k])] \o <<bs>>)
  IN  IF m = <<-1>> THEN <<-1>> ELSE <<n>> \o m

\* the sequences of at most MaxBases distinct classes among 1..n
BaseLists(n) ==
  UNION {{bs \in [1..k -> 1..n] : \A i, j \in 1..k : i # j => bs[i] # bs[j]}
           : k \in 0..MaxBases}

----------------------------------------------------------------------------
(* LoadClassInterface: cotk/_utils/metaclass.py, lines 162-188.            *)
(* lcReg is the sequence of the classes that derive from                   *)
(* LoadClassInterface, in definition order; lcReg[1] is the class          *)
(* LoadClassInterface itself.                                              *)

LcNames == {<<"A","b">>, <<"C">>}

LcQueries == {<<"a","B">>, <<"z">>}

NoResult == [op |-> "none"]

\* cls.__subclasses__(): the direct subclasses, in definition order
Subclasses(registry, c) ==
  SelectSeq([i \in 1..Len(registry) |-> i],
            LAMBDA i : c \in Range(registry[i].bases))

RECURSIVE GetAllSubclasses(_, _)
RECURSIVE YieldFrom(_, _, _)
\* the loop of get_all_subclasses over subs[k..]
YieldFrom(registry, subs, k) ==
  IF k > Len(subs) THEN <<>>
  ELSE GetAllSubclasses(registry, subs[k]) \o <<subs[k]>>
         \o YieldFrom(registry, subs, k + 1)

\* get_all_subclasses: the sequence the generator yields
GetAllSubclasses(registry, c) == YieldFrom(registry, Subclasses(registry, c), 1)

\* lines 185-187: the RuntimeError is made from inspect.getfile(result) and
\* inspect.getfile(subclass); getfile raises OSError for a class defined in a
\* __main__ that has no file (an interactive session, `python -c`)
RaiseDuplicate(registry, result, subclass) ==
  IF registry[result].file /\ registry[subclass].file
    THEN [kind |-> "RuntimeError", value |-> 0]
    ELSE [kind |-> "OSError", value |-> 0]

RECURSIVE LoadClassLoop(_, _, _, _, _)
\* the loop of load_class over the yielded classes, from position k, with
\* `result` (0 for None) found so far
LoadClassLoop(registry, yielded, k, class_name, result) ==
  IF k > Len(yielded) THEN [kind |-> "return", value |-> result]
  ELSE IF Lower(registry[yielded[k]].name) = Lower(class_name)
    THEN IF result = 0
           THEN LoadClassLoop(registry, yielded, k + 1, class_name, yielded[k])
           ELSE RaiseDuplicate(registry, result, yielded[k])
    ELSE LoadClassLoop(registry, yielded, k + 1, class_name, result)

\* load_class
LoadClassOf(registry, c, class_name) ==
  LoadClassLoop(registry, GetAllSubclasses(registry, c), 1, class_name, 0)

LoadInterfaceName ==
  <<"L","o","a","d","C","l","a","s","s","I","n","t","e","r","f","a","c","e">>

\* only LoadClassInterface is defined
LcStart ==
  <<[name |-> LoadInterfaceName, bases |-> <<>>, mro |-> <<1, 0>>,
     file |-> TRUE]>>

\* a class statement `class name(bases...)` below LoadClassInterface, in a
\* source file or in a __main__ without file
DefineSubclass ==
  /\ Len(lcReg) < MaxSubclasses + 1
  /\ \E name \in LcNames, bases \in BaseLists(Len(lcReg)), file \in BOOLEAN :
       LET n == Len(lcReg) + 1
           m == NewMro(lcReg, n, bases)
       IN  /\ bases # <<>>
           /\ IF m = <<-1>>
                THEN /\ lcResult' = [op |-> "class", kind |-> "TypeError"]
                     /\ UNCHANGED lcReg
                ELSE /\ lcReg' = Append(lcReg,
                                   [name |-> name, bases |-> bases, mro |-> m,
                                    file |-> file])
                     /\ lcResult' = [op |-> "class", kind |-> "ok"]
  /\ UNCHANGED notLoad

\* a call cls.load_class(class_name)
LoadClass ==
  \E c \in 1..Len(lcReg), class_name \in LcQueries :
    LET r == LoadClassOf(lcReg, c, class_name) IN
    /\ lcResult' = [op |-> "load_class", cls |-> c, class_name |-> class_name,
                    kind |-> r.kind, value |-> r.value]
    /\ UNCHANGED lcReg
    /\ UNCHANGED notLoad

----------------------------------------------------------------------------
(* DocStringInheritor.__new__: cotk/_utils/metaclass.py, lines 8-160.      *)
(* reg is the sequence of the classes defined so far.  A class is a record *)
(*   meta      TRUE for a class created by DocStringInheritor              *)
(*   name, bases, mro                                                      *)
(*   dict      the string constants of the class body                      *)
(*   own       the docstring written in the class body (NoneDoc if none)   *)
(*   inh       the class the docstring was inherited from (-1 if none)     *)
(*   template  clsdict['__doc__'] after the inheritance step               *)
(*   META_DOC, doc     the saved template and the final __doc__            *)
(*   fown      the docstring of the method f of the class body             *)
(*             (NoAttr if the body defines no f)                           *)
(*   fmeta, fdoc   META_DOC_FOR_ATTRIBUTES['f'] and the final f.__doc__    *)

\* None, where a string is expected
NoneDoc == <<"None">>

\* the class body defines no such attribute
NoAttr == <<"absent">>

\* a ValueError raised by the replacement function of re.sub
SubError == <<"ValueError">>

\* a substitution loop that never ends
SubHangs == <<"hangs">>

IsText(d) == d \notin {NoneDoc, NoAttr, SubError, SubHangs}

\* Python's truth value of a docstring: None and "" are false
Truthy(d) == d # NoneDoc /\ d # <<>>

Digits == {"0","1","2","3","4","5","6","7","8","9"}

\* \w of the regular expressions
IsWord(c) == IsUpper(c) \/ c \in Range(LowerChars) \/ c = "_" \/ c \in Digits

\* [A-Z_]
IsNameChar(c) == IsUpper(c) \/ c = "_"

RECURSIVE WordEnd(_, _)
\* the end of the run of \w characters that starts at i: the first position
\* from i on that holds no \w character
WordEnd(s, i) ==
  IF i > Len(s) \/ ~IsWord(s[i]) THEN i ELSE WordEnd(s, i + 1)

\* [A-Z_]+ (line 100, final) or [A-Z][A-Z_]* (line 91, not final)
NameOK(n, final) ==
  /\ n # <<>>
  /\ \A i \in 1..Len(n) : IsNameChar(n[i])
  /\ final \/ IsUpper(n[1])

NoMatch == [end |-> 0, group |-> <<>>]

\* the qualified form \{\b\w*\.NAME\}: the "." is at j1, the run of \w after
\* it ends at j2
MatchQualified(s, i, j1, j2, final) ==
  IF j2 <= Len(s) /\ s[j2] = "}" /\ NameOK(SubSeq(s, j1 + 1, j2 - 1), final)
    THEN [end |-> j2, group |-> SubSeq(s, i + 1, j2 - 1)]
    ELSE NoMatch

\* the match at i, where the run of \w after the brace ends at j1
MatchFrom(s, i, j1, final) ==
  IF j1 = i + 1 \/ j1 > Len(s) THEN NoMatch
  ELSE IF s[j1] = "}"
    THEN IF NameOK(SubSeq(s, i + 1, j1 - 1), final)
           THEN [end |-> j1, group |-> SubSeq(s, i + 1, j1 - 1)]
           ELSE NoMatch
  ELSE IF s[j1] = "."
    THEN MatchQualified(s, i, j1, WordEnd(s, j1 + 1), final)
  ELSE NoMatch

\* the match of \{\b((\w*\.)?NAME)\} at position i of s, where s[i] = "{":
\* the position of the closing brace and group 1 (end 0: no match)
MatchAt(s, i, final) == MatchFrom(s, i, WordEnd(s, i + 1), final)

\* whether the regular expression matches somewhere in s
HasPlaceholder(s, final) ==
  \E i \in 1..Len(s) : s[i] = "{" /\ MatchAt(s, i, final).end # 0

ObjectName == <<"o","b","j","e","c","t">>

ClassName(registry, c) == IF c = 0 THEN ObjectName ELSE registry[c].name

\* hasattr(cls, attr) for a string constant: some class of cls's mro holds it
HasAttr(registry, c, attr) ==
  \E k \in Range(MroOf(registry, c)) :
    k # 0 /\ attr \in DOMAIN registry[k].dict

\* getattr(cls, attr): the first class of cls's mro that holds it
GetAttr(registry, c, attr) ==
  LET m == MroOf(registry, c)
      i == CHOOSE i \in 1..Len(m) :
             /\ m[i] # 0 /\ attr \in DOMAIN registry[m[i]].dict
             /\ \A j \in 1..(i - 1) :
                  m[j] = 0 \/ attr \notin DOMAIN registry[m[j]].dict
  IN  registry[m[i]].dict[attr]

RECURSIVE Chain(_, _)
\* (mro_cls for base in bases for mro_cls in base.mro())
Chain(registry, bases) ==
  IF bases = <<>> THEN <<>>
  ELSE MroOf(registry, bases[1]) \o Chain(registry, Tail(bases))

\* the first position of seq that holds an element of good, 0 if none
FirstIndex(seq, good) ==
  IF \E i \in 1..Len(seq) : seq[i] \in good
    THEN CHOOSE i \in 1..Len(seq) :
           seq[i] \in good /\ \A j \in 1..(i - 1) : seq[j] \notin good
    ELSE 0

\* the position of the "." of a qualified name, 0 if there is none
DotAt(n) == FirstIndex(n, {"."})

\* getattr(ch[k], attr) of the class found at position k of the chain (0:
\* none found); a missing class or attribute ends in ValueError
ClassAttrOrError(registry, ch, k, attr) ==
  IF k = 0 THEN SubError
  ELSE IF HasAttr(registry, ch[k], attr) THEN GetAttr(registry, ch[k], attr)
  ELSE SubError

\* find_attr, lines 35-41, with find_base, lines 26-32: Base.NAME
FindQualified(registry, cx, base_name, attr, ch) ==
  IF cx.name = base_name
    THEN IF attr \in DOMAIN cx.dict THEN cx.dict[attr] ELSE SubError
    ELSE ClassAttrOrError(registry, ch,
           FirstIndex(ch, {c \in Range(ch) :
                            ClassName(registry, c) = base_name}),
           attr)

\* find_attr, lines 42-48: NAME, from the class body first and then from the
\* first class of the chain that has it
FindPlain(registry, cx, attr, ch) ==
  IF attr \in DOMAIN cx.dict THEN cx.dict[attr]
  ELSE ClassAttrOrError(registry, ch,
         FirstIndex(ch, {c \in Range(ch) : HasAttr(registry, c, attr)}),
         attr)

\* find_attr with the "." of the name at d (0: none) and the chain ch
FindAttrAt(registry, cx, attr_name, d, ch) ==
  IF d # 0
    THEN FindQualified(registry, cx, SubSeq(attr_name, 1, d - 1),
                       SubSeq(attr_name, d + 1, Len(attr_name)), ch)
    ELSE FindPlain(registry, cx, attr_name, ch)

\* find_attr under replace_for_clsdict / replace_for (lines 34-78): the
\* value, or SubError for the ValueError that a missing base or constant ends
\* in.  cx is the class being created: its name, bases and dict.
FindAttr(registry, cx, attr_name) ==
  FindAttrAt(registry, cx, attr_name, DotAt(attr_name),
             Chain(registry, cx.bases))

\* the text put in, followed by the rest; an exception anywhere is the result
Splice(v, rest) ==
  IF v = SubError \/ rest = SubError THEN SubError ELSE v \o rest

RECURSIVE ReSubFrom(_, _, _, _, _)
\* re.sub at position i, where m is the match there (end 0: no match)
ReSubAt(registry, cx, s, i, final, m) ==
  Splice(IF m.end # 0 THEN FindAttr(registry, cx, m.group) ELSE <<s[i]>>,
         ReSubFrom(registry, cx, s, IF m.end # 0 THEN m.end + 1 ELSE i + 1,
                   final))

\* re.sub(pattern, replace, s) from position i on: the matches are found left
\* to right, do not overlap, and the text put in is not scanned again
ReSubFrom(registry, cx, s, i, final) ==
  IF i > Len(s) THEN <<>>
  ELSE ReSubAt(registry, cx, s, i, final,
               IF s[i] = "{" THEN MatchAt(s, i, final) ELSE NoMatch)

\* one re.sub over the whole docstring
ReSub(registry, cx, s, final) == ReSubFrom(registry, cx, s, 1, final)

\* SubstituteRound that stops after the first re.sub
SubstituteRoundOnce(registry, cx, doc, new, final, seen, rounds) == new

RECURSIVE SubstituteLoop(_, _, _, _, _, _)
\* one round of a `while True` loop: new is what re.sub made of doc
SubstituteRound(registry, cx, doc, new, final, seen, rounds) ==
  IF new = SubError THEN SubError
  ELSE IF new = doc THEN doc
  ELSE IF new \in seen \/ rounds = 0 THEN SubHangs
  ELSE SubstituteLoop(registry, cx, new, final, seen \cup {doc}, rounds - 1)

\* the `while True` loops (lines 90-94, 99-103, 125-130, 136-141): substitute
\* until a round changes nothing.  A docstring that comes back, or that still
\* changes after MaxRounds rounds, is a loop that never ends.
SubstituteLoop(registry, cx, doc, final, seen, rounds) ==
  SubstituteRound(registry, cx, doc, ReSub(registry, cx, doc, final), final,
                  seen, rounds)

\* a substitution loop from its start; the loops of the class docstring are
\* guarded (lines 89 and 98: only a docstring that is true), those of an
\* attribute are not
Substitute(registry, cx, doc, final, guarded) ==
  IF guarded /\ ~Truthy(doc) THEN doc
  ELSE SubstituteLoop(registry, cx, doc, final, {}, MaxRounds)

\* whether mro_cls.META_DOC exists: object and the classes created without
\* the metaclass have no such attribute
HasMetaDoc(registry, c) == c # 0 /\ registry[c].meta

\* lines 82-87: a class body without docstring (or with an empty one) takes
\* the META_DOC of the first class of the chain whose META_DOC is true; the
\* read of META_DOC raises AttributeError on a class that has none
InheritDoc(registry, bases, own) ==
  IF Truthy(own) THEN [kind |-> "ok", from |-> -1, doc |-> own]
  ELSE LET ch == Chain(registry, bases)
           k  == FirstIndex(ch, {c \in Range(ch) :
                                 \/ ~HasMetaDoc(registry, c)
                                 \/ Truthy(registry[c].META_DOC)})
       IN  IF k = 0 THEN [kind |-> "ok", from |-> -1, doc |-> own]
           ELSE IF ~HasMetaDoc(registry, ch[k])
             THEN [kind |-> "AttributeError", from |-> -1, doc |-> own]
             ELSE [kind |-> "ok", from |-> ch[k],
                   doc |-> registry[ch[k]].META_DOC]

\* lines 115-122: a method without docstring takes the entry of the first
\* class of the chain that has one in its META_DOC_FOR_ATTRIBUTES, and ""
\* if there is none
InheritAttrDoc(registry, bases, fown) ==
  IF Truthy(fown) THEN fown
  ELSE LET ch == Chain(registry, bases)
           k  == FirstIndex(ch, {c \in Range(ch) :
                                 /\ HasMetaDoc(registry, c)
                                 /\ registry[c].fmeta # NoAttr})
       IN  IF k = 0 THEN <<>> ELSE registry[ch[k]].fmeta

\* the exception (or the hang) a substitution ended in, "ok" if none
KindOf(d) == IF d = SubError THEN "ValueError"
             ELSE IF d = SubHangs THEN "hangs" ELSE "ok"

\* the saved template and the final docstring
BothDocs(meta, final) ==
  [kind |-> KindOf(final), meta |-> meta, final |-> final]

\* FinalStage with the save moved behind the final substitution
FinalStageSavedLate(registry, cx, meta, guarded) ==
  IF KindOf(meta) # "ok"
    THEN [kind |-> KindOf(meta), meta |-> meta, final |-> meta]
    ELSE BothDocs(Substitute(registry, cx, meta, TRUE, guarded),
                  Substitute(registry, cx, meta, TRUE, guarded))

\* lines 98-103 / 136-141 after lines 96 / 133: meta is saved, then the final
\* substitution runs on it
FinalStage(registry, cx, meta, guarded) ==
  IF KindOf(meta) # "ok"
    THEN [kind |-> KindOf(meta), meta |-> meta, final |-> meta]
    ELSE BothDocs(meta, Substitute(registry, cx, meta, TRUE, guarded))

\* lines 89-103 (the class docstring, guarded) and 125-141 (an attribute's):
\* the substitution of the constants without "_" prefix, the save, the final
\* substitution
TwoStages(registry, cx, doc, guarded) ==
  FinalStage(registry, cx, Substitute(registry, cx, doc, FALSE, guarded),
             guarded)

Failed(kind) == [kind |-> kind]

\* line 160, type.__new__: the class, or TypeError without a consistent mro
CreateType(n, cx, own, fown, inh, d, fmeta, fdoc, mro) ==
  IF mro = <<-1>> THEN Failed("TypeError")
  ELSE [kind |-> "ok",
        cls  |-> [meta |-> TRUE, name |-> cx.name, bases |-> cx.bases,
                  mro |-> mro, dict |-> cx.dict, own |-> own,
                  inh |-> inh.from, template |-> inh.doc,
                  META_DOC |-> d.meta, doc |-> d.final, fown |-> fown,
                  fmeta |-> fmeta, fdoc |-> fdoc]]

\* lines 108-158 for the method f, whose docstrings are f; line 144: an
\* empty docstring is set as None
WithAttrDocs(registry, n, cx, own, fown, inh, d, f) ==
  IF f.kind # "ok" THEN Failed(f.kind)
  ELSE CreateType(n, cx, own, fown, inh, d, f.meta,
                  IF f.final = <<>> THEN NoneDoc ELSE f.final,
                  NewMro(registry, n, cx.bases))

\* lines 105-158 after the class docstrings d
WithClassDocs(registry, n, cx, own, fown, inh, d) ==
  IF d.kind # "ok" THEN Failed(d.kind)
  ELSE WithAttrDocs(registry, n, cx, own, fown, inh, d,
         IF fown = NoAttr
           THEN BothDocs(NoAttr, NoAttr)
           ELSE TwoStages(registry, cx,
                          InheritAttrDoc(registry, cx.bases, fown), FALSE))

\* lines 88-158 after the inheritance step inh
WithInherited(registry, n, cx, own, fown, inh) ==
  IF inh.kind # "ok" THEN Failed(inh.kind)
  ELSE WithClassDocs(registry, n, cx, own, fown, inh,
                     TwoStages(registry, cx, inh.doc, TRUE))

\* DocStringInheritor.__new__(cls, name, bases, clsdict), lines 24-160, for
\* a class body with the constants dict, the docstring own and the method
\* docstring fown; n is the number the class gets
NewClass(registry, n, name, bases, dict, own, fown) ==
  WithInherited(registry, n,
                [name |-> name, bases |-> bases, dict |-> dict], own, fown,
                InheritDoc(registry, bases, own))

\* the names of the classes, in definition order
ClassNames == <<"P", "Q", "R", "S", "T", "V", "W">>

NameAt(n) == <<ClassNames[n]>>

KA == <<"A">>
KB == <<"B">>
KU == <<"_", "U">>

PhA == <<"{", "A", "}">>
PhB == <<"{", "B", "}">>
PhU == <<"{", "_", "U", "}">>

\* the class bodies' constants
DictChoices ==
  { <<>>,
    (KA :> <<"a">>) @@ (KU :> <<"u">>),
    (KA :> PhU) @@ (KU :> PhB) @@ (KB :> <<"b">>),
    (KA :> PhA) @@ (KU :> <<"u">>),
    (KA :> PhB) @@ (KB :> PhA) @@ (KU :> <<"u">>) }

\* the class bodies' docstrings
DocChoices == { NoneDoc, PhA \o PhU, <<"{", "P", ".", "A", "}">> }

\* the docstring of the method f of a class body
MethodDocChoices == { NoAttr, NoneDoc, PhA \o PhU }

NoOp == [op |-> "none", kind |-> "ok"]

Metas(registry) == {i \in 1..Len(registry) : registry[i].meta}

\* the outcome r of a class statement: the class is defined, or the exception
\* (or hang) is recorded
Defined(bases, dict, own, fown, r) ==
  /\ last' = [op |-> "class", kind |-> r.kind, bases |-> bases,
              dict |-> dict, own |-> own, fown |-> fown]
  /\ reg' = IF r.kind = "ok" THEN Append(reg, r.cls) ELSE reg
  /\ UNCHANGED notDoc

\* a class statement whose metaclass is DocStringInheritor.  An exception
\* it raises is not caught (it ends the import), and a hang ends everything:
\* no class statement follows either.
DefineClass ==
  /\ last.kind = "ok"
  /\ Cardinality(Metas(reg)) < MaxDocClasses
  /\ \E bases \in BaseLists(Len(reg)), dict \in DictChoices,
        own \in DocChoices, fown \in MethodDocChoices :
       Defined(bases, dict, own, fown,
               NewClass(reg, Len(reg) + 1, NameAt(Len(reg) + 1), bases, dict,
                        own, fown))

\* a class statement without the metaclass and without bases: type.__new__
\* alone, no docstring is touched
DefinePlainClass ==
  /\ last.kind = "ok"
  /\ Len(reg) - Cardinality(Metas(reg)) < MaxPlainClasses
  /\ \E dict \in {<<>>, (KA :> <<"m">>) @@ (KU :> <<"n">>)} :
       LET n == Len(reg) + 1 IN
       /\ reg' = Append(reg,
                   [meta |-> FALSE, name |-> NameAt(n), bases |-> <<>>,
                    mro |-> <<n, 0>>, dict |-> dict, own |-> NoneDoc,
                    inh |-> -1, template |-> NoneDoc, META_DOC |-> NoneDoc,
                    doc |-> NoneDoc, fown |-> NoAttr, fmeta |-> NoAttr,
                    fdoc |-> NoAttr])
       /\ last' = [op |-> "plain", kind |-> "ok", bases |-> <<>>,
                   dict |-> dict, own |-> NoneDoc, fown |-> NoAttr]
  /\ UNCHANGED notDoc

----------------------------------------------------------------------------
(* SingleTurnDialog.__init__: cotk/dataloader/single_turn_dialog.py,       *)
(* lines 57-88.  dlg.pc is the position inside the constructor.            *)

Pretrained == {"None", "gpt2", "bert", "GPT2"}

Tokenizers == {"None", "nltk", "space", "PretrainedTokenizer",
               "SimpleTokenizer"}

LowerLetter == {"None", "True", "False"}

\* isinstance(tokenizer, PretrainedTokenizer), line 77
IsPretrainedTokenizer(tokenizer) == tokenizer = "PretrainedTokenizer"

\* Branch without the isinstance check of line 77
BranchUnchecked(pretrained, tokenizer) ==
  IF pretrained = "None"
    THEN [kind |-> "ok", vocab |-> "None",
          fields |-> <<<<"post", "SentenceDefault">>,
                       <<"resp", "SentenceDefault">>>>]
  ELSE IF pretrained = "gpt2"
    THEN [kind |-> "ok", vocab |-> "PretrainedVocab",
          fields |-> <<<<"post", "SentenceGPT2">>,
                       <<"resp", "SentenceGPT2">>>>]
  ELSE [kind |-> "ValueError", vocab |-> "None", fields |-> <<>>]

\* the branch of lines 67-88: the fields to initialise (an OrderedDict, in
\* its order), or the ValueError
Branch(pretrained, tokenizer) ==
  IF pretrained = "None"
    THEN [kind |-> "ok", vocab |-> "None",
          fields |-> <<<<"post", "SentenceDefault">>,
                       <<"resp", "SentenceDefault">>>>]
  ELSE IF pretrained = "gpt2"
    THEN IF ~IsPretrainedTokenizer(tokenizer)
           THEN [kind |-> "ValueError", vocab |-> "None", fields |-> <<>>]
           ELSE [kind |-> "ok", vocab |-> "PretrainedVocab",
                 fields |-> <<<<"post", "SentenceGPT2">>,
                              <<"resp", "SentenceGPT2">>>>]
  ELSE [kind |-> "ValueError", vocab |-> "None", fields |-> <<>>]

\* SingleTurnDialog(file_id, tokenizer=..., convert_to_lower_letter=...,
\* pretrained=...) is called; line 66 stores pretrained
Construct ==
  /\ dlg.pc = "idle"
  /\ \E pretrained \in Pretrained, tokenizer \in Tokenizers,
        lower \in LowerLetter :
       dlg' = [pc |-> "validate", pretrained |-> pretrained,
               tokenizer |-> tokenizer, lower |-> lower,
               _pretrained |-> pretrained, vocab |-> "None", todo |-> <<>>,
               fields |-> <<>>, default |-> <<>>]
  /\ UNCHANGED notDialog

\* what the branch b makes of the constructor
Validated(b) ==
  dlg' = IF b.kind = "ok"
           THEN [dlg EXCEPT !.pc = "init", !.vocab = b.vocab,
                            !.todo = b.fields]
           ELSE [dlg EXCEPT !.pc = "ValueError"]

\* lines 67, 76-79, 87-88
Validate ==
  /\ dlg.pc = "validate"
  /\ Validated(Branch(dlg.pretrained, dlg.tokenizer))
  /\ UNCHANGED notDialog

\* lines 73 and 84, super().__init__: the fields are initialised, and their
\* data loaded, in the order of the OrderedDict
InitField ==
  /\ dlg.pc = "init"
  /\ dlg.todo # <<>>
  /\ dlg' = [dlg EXCEPT !.fields = Append(@, Head(dlg.todo)),
                        !.todo = Tail(@)]
  /\ UNCHANGED notDialog

\* lines 74 and 85
SetDefaultField ==
  /\ dlg.pc = "init"
  /\ dlg.todo = <<>>
  /\ dlg' = [dlg EXCEPT !.pc = "done", !.default = <<"train", "post">>]
  /\ UNCHANGED notDialog

----------------------------------------------------------------------------
(* replace_unk: cotk/_utils/utils.py, lines 38-49.                         *)

\* token ids; -1 is the default target_token
Tokens == {-1, 0, 1}

\* the lists of at most n elements of S
ListsUpTo(S, n) == UNION {[1..k -> S] : k \in 0..n}

\* ReplaceInSentence with the two arms of the conditional exchanged
ReplaceInSentenceSwapped(sentence, unk_token, target_token) ==
  [i \in 1..Len(sentence) |->
     IF sentence[i] = unk_token THEN sentence[i] ELSE target_token]

\* line 49, the inner comprehension
ReplaceInSentence(sentence, unk_token, target_token) ==
  [i \in 1..Len(sentence) |->
     IF sentence[i] = unk_token THEN target_token ELSE sentence[i]]

\* line 49
replace_unk(sentences, unk_token, target_token) ==
  [k \in 1..Len(sentences) |->
     ReplaceInSentence(sentences[k], unk_token, target_token)]

\* the default of the parameter target_token, line 38
DefaultTarget == -1

\* a call replace_unk(sentences, unk_token[, target_token]); the caller's
\* list is kept in unk.sentences, the returned list in unk.result
ReplaceUnk ==
  /\ unk.pc = "args"
  /\ \E unk_token \in Tokens, given \in BOOLEAN, target \in Tokens :
       LET target_token == IF given THEN target ELSE DefaultTarget
       IN  unk' = [pc |-> "returned", sentences |-> unk.sentences,
                   unk_token |-> unk_token, target_token |-> target_token,
                   result |-> replace_unk(unk.sentences, unk_token,
                                          target_token)]
  /\ UNCHANGED notUnk

\* the next call, on the list the last call returned
ReplaceAgain ==
  /\ unk.pc = "returned"
  /\ unk' = [pc |-> "args", sentences |-> unk.result]
  /\ UNCHANGED notUnk

----------------------------------------------------------------------------
(* The CLI's configuration: `cotk config set|show` (main.dispatch) and     *)
(* config.config_load, as tests/scripts/test_scripts.py, lines 41-58, uses *)
(* them.  cfg maps the names that were set to their stored value.          *)

ConfigNames == {"test_variable", "other"}

ConfigValues == {"123", "456"}

RECURSIVE JoinFrom(_, _)
\* " ".join(values[k..]) as a sequence of pieces
JoinFrom(values, k) ==
  IF k > Len(values) THEN <<>>
  ELSE IF k = Len(values) THEN <<values[k]>>
  ELSE <<values[k], " ">> \o JoinFrom(values, k + 1)

\* " ".join(values)
Join(values) == JoinFrom(values, 1)

\* config_load(name): the stored value, or None
config_load(stored, name) ==
  IF name \in DOMAIN stored THEN stored[name] ELSE NoneDoc

\* ConfigStore that appends to the value stored before
ConfigStoreAppend(stored, name, values) ==
  [n \in DOMAIN stored \cup {name} |->
     IF n # name THEN stored[n]
     ELSE IF n \in DOMAIN stored THEN stored[n] \o <<" ">> \o Join(values)
     ELSE Join(values)]

\* the configuration after `config set name v1 ... vn`
ConfigStore(stored, name, values) ==
  [n \in DOMAIN stored \cup {name} |->
     IF n = name THEN Join(values) ELSE stored[n]]

\* dispatch('config', ['set', name, v1, ..., vn])
ConfigSet ==
  \E name \in ConfigNames,
     values \in ListsUpTo(ConfigValues, MaxValues) \ {<<>>} :
    /\ cfg' = ConfigStore(cfg, name, values)
    /\ cfgOut' = [op |-> "set", name |-> name, values |-> values,
                  before |-> cfg]
    /\ UNCHANGED notConfig

\* dispatch('config', ['show', name])
ConfigShow ==
  \E name \in ConfigNames :
    /\ cfgOut' = [op |-> "show", name |-> name,
                  value |-> config_load(cfg, name), before |-> cfg]
    /\ UNCHANGED cfg
    /\ UNCHANGED notConfig

\* config.config_load(name)
ConfigLoad ==
  \E name \in ConfigNames :
    /\ cfgOut' = [op |-> "load", name |-> name,
                  value |-> config_load(cfg, name), before |-> cfg]
    /\ UNCHANGED cfg
    /\ UNCHANGED notConfig

----------------------------------------------------------------------------
(* The specifications: one per component, the other components idle.       *)

NoDialog == [pc |-> "idle"]

NoUnk == [pc |-> "idle"]

NoConfig == <<>>

SpecLoadInit ==
  /\ lcReg = LcStart
  /\ lcResult = NoResult
  /\ reg = <<>>
  /\ last = NoOp
  /\ dlg = NoDialog
  /\ unk = NoUnk
  /\ cfg = NoConfig
  /\ cfgOut = NoResult

SpecLoadNext == DefineSubclass \/ LoadClass

SpecLoad == SpecLoadInit /\ [][SpecLoadNext]_vars

SpecDocInit ==
  /\ reg = <<>>
  /\ last = NoOp
  /\ lcReg = LcStart
  /\ lcResult = NoResult
  /\ dlg = NoDialog
  /\ unk = NoUnk
  /\ cfg = NoConfig
  /\ cfgOut = NoResult

SpecDocNext == DefineClass \/ DefinePlainClass

SpecDoc == SpecDocInit /\ [][SpecDocNext]_vars

SpecDialogInit ==
  /\ dlg = NoDialog
  /\ lcReg = LcStart
  /\ lcResult = NoResult
  /\ reg = <<>>
  /\ last = NoOp
  /\ unk = NoUnk
  /\ cfg = NoConfig
  /\ cfgOut = NoResult

SpecDialogNext == Construct \/ Validate \/ InitField \/ SetDefaultField

SpecDialog == SpecDialogInit /\ [][SpecDialogNext]_vars

SpecUnkInit ==
  /\ unk \in {[pc |-> "args", sentences |-> ss] :
               ss \in ListsUpTo(ListsUpTo(Tokens, MaxSentenceLen),
                                MaxSentences)}
  /\ lcReg = LcStart
  /\ lcResult = NoResult
  /\ reg = <<>>
  /\ last = NoOp
  /\ dlg = NoDialog
  /\ cfg = NoConfig
  /\ cfgOut = NoResult

SpecUnkNext == ReplaceUnk \/ ReplaceAgain

SpecUnk == SpecUnkInit /\ [][SpecUnkNext]_vars

SpecConfigInit ==
  /\ cfg = NoConfig
  /\ cfgOut = NoResult
  /\ lcReg = LcStart
  /\ lcResult = NoResult
  /\ reg = <<>>
  /\ last = NoOp
  /\ dlg = NoDialog
  /\ unk = NoUnk

SpecConfigNext == ConfigSet \/ ConfigShow \/ ConfigLoad

SpecConfig == SpecConfigInit /\ [][SpecConfigNext]_vars

----------------------------------------------------------------------------
(* LoadClassInterface: the claims, under SpecLoad.                         *)

\* the strict (direct or transitive) subclasses of c
StrictSubclasses(registry, c) ==
  {d \in 1..Len(registry) : d # c /\ c \in Range(registry[d].mro)}

\* two names are equal once both are lower-cased
SameNameIgnoringCase(a, b) ==
  /\ Len(a) = Len(b)
  /\ \A i \in 1..Len(a) : LowerChar(a[i]) = LowerChar(b[i])

\* the strict subclasses of c whose name is class_name, case-insensitively
Matching(registry, c, class_name) ==
  {d \in StrictSubclasses(registry, c) :
     SameNameIgnoringCase(registry[d].name, class_name)}

\* C1: load_class returns None, without raising, when no strict subclass
\* of cls has the name (case-insensitively); it returns the subclass that has
\* it when there is one; and what it returns is never cls itself nor a class
\* of another name.
C1_LoadClassReturnsMatchingStrictSubclass ==
  lcResult.op = "load_class" =>
    LET M == Matching(lcReg, lcResult.cls, lcResult.class_name) IN
    /\ M = {} => lcResult.kind = "return" /\ lcResult.value = 0
    /\ Cardinality(M) = 1 => lcResult.kind = "return" /\ lcResult.value \in M
    /\ (lcResult.kind = "return" /\ lcResult.value # 0) =>
          /\ lcResult.value \in M
          /\ lcResult.value # lcResult.cls

\* what holds of the value load_class returns, when it returns
C1_WhenReturned ==
  (lcResult.op = "load_class" /\ lcResult.kind = "return") =>
    LET M == Matching(lcReg, lcResult.cls, lcResult.class_name) IN
    /\ lcResult.value = 0 <=> M = {}
    /\ lcResult.value # 0 => lcResult.value \in M /\ lcResult.value # lcResult.cls

\* load_class, called on a class whose own name matches, returned a
\* transitive (not direct) subclass
C1_Returned ==
  /\ lcResult.op = "load_class"
  /\ lcResult.kind = "return"
  /\ lcResult.value # 0
  /\ SameNameIgnoringCase(lcReg[lcResult.cls].name, lcResult.class_name)
  /\ lcResult.cls \notin Range(lcReg[lcResult.value].bases)

\* the one class that has the name is yielded twice, by two of its bases,
\* and load_class raises
DiamondRaises ==
  /\ lcResult.op = "load_class"
  /\ lcResult.kind # "return"
  /\ Cardinality(Matching(lcReg, lcResult.cls, lcResult.class_name)) = 1

\* C2: when two different strict subclasses of cls have the name
\* (case-insensitively), load_class raises RuntimeError and returns neither,
\* wherever the two are in the hierarchy and in whatever order they were
\* defined.
C2_DuplicateNamesRaise ==
  lcResult.op = "load_class" =>
    (Cardinality(Matching(lcReg, lcResult.cls, lcResult.class_name)) >= 2
       => lcResult.kind = "RuntimeError")

\* what holds instead: load_class raises, and RuntimeError when the classes
\* were defined in files
C2_WhenInFiles ==
  lcResult.op = "load_class" =>
    (Cardinality(Matching(lcReg, lcResult.cls, lcResult.class_name)) >= 2
       => /\ lcResult.kind # "return"
          /\ (\A d \in 1..Len(lcReg) : lcReg[d].file)
               => lcResult.kind = "RuntimeError")

\* two classes of the name, one not defined in a file: OSError
DuplicateWithoutFile ==
  /\ lcResult.op = "load_class"
  /\ lcResult.kind = "OSError"
  /\ Cardinality(Matching(lcReg, lcResult.cls, lcResult.class_name)) >= 2

----------------------------------------------------------------------------
(* DocStringInheritor: the claims, under SpecDoc.                          *)

\* the class statement that made class c, as find_attr sees it
CxOf(c) == [name |-> reg[c].name, bases |-> reg[c].bases, dict |-> reg[c].dict]

Created == {c \in 1..Len(reg) : reg[c].meta}

\* the first class of the chain that has a META_DOC and a non-empty one
FirstWithDoc(bases) ==
  FirstIndex(Chain(reg, bases),
             {c \in 1..Len(reg) :
                reg[c].meta /\ reg[c].META_DOC \notin {NoneDoc, <<>>}})

\* C3: a class body without docstring (none, or an empty one) takes as its
\* template the META_DOC of the first class, in the order of its bases'
\* mros, whose META_DOC is non-empty; a class body with a non-empty
\* docstring keeps its own.
C3_InheritsFirstNonEmptyMetaDoc ==
  last.op = "class" =>
    /\ (last.own \in {NoneDoc, <<>>} /\ FirstWithDoc(last.bases) # 0) =>
         /\ last.kind # "AttributeError"
         /\ last.kind = "ok" =>
              LET b == Chain(reg, last.bases)[FirstWithDoc(last.bases)] IN
              /\ reg[Len(reg)].inh = b
              /\ reg[Len(reg)].template = reg[b].META_DOC
    /\ (last.own \notin {NoneDoc, <<>>} /\ last.kind = "ok") =>
         /\ reg[Len(reg)].inh = -1
         /\ reg[Len(reg)].template = last.own

\* what the code does instead: whenever the class statement succeeds, the
\* template is the one C3 describes
C3_WhenCreated ==
  (last.op = "class" /\ last.kind = "ok" /\ last.own \in {NoneDoc, <<>>}) =>
    IF FirstWithDoc(last.bases) = 0
      THEN reg[Len(reg)].inh = -1 /\ reg[Len(reg)].template = last.own
      ELSE LET b == Chain(reg, last.bases)[FirstWithDoc(last.bases)] IN
           /\ reg[Len(reg)].inh = b
           /\ reg[Len(reg)].template = reg[b].META_DOC

\* a class body without docstring, a base with a non-empty META_DOC behind a
\* base that has no META_DOC: the class statement raised AttributeError
C3_RaisesAttributeError ==
  /\ last.op = "class"
  /\ last.kind = "AttributeError"
  /\ last.own = NoneDoc
  /\ FirstWithDoc(last.bases) # 0

\* a class body without docstring inherited one
C3_Inherited ==
  /\ last.op = "class" /\ last.kind = "ok"
  /\ last.own = NoneDoc
  /\ reg[Len(reg)].inh # -1

\* whether the name of a placeholder (after its qualifier) starts with "_"
IsPrefixed(group) == group[DotAt(group) + 1] = "_"

\* whether s holds a placeholder whose name has no "_" prefix
HasUnprefixed(s) ==
  \E i \in 1..Len(s) :
    /\ s[i] = "{"
    /\ MatchAt(s, i, TRUE).end # 0
    /\ ~IsPrefixed(MatchAt(s, i, TRUE).group)

RECURSIVE Filled(_, _, _, _, _)
\* the text s from position i on, with every placeholder filled in, nested
\* ones included (to the depth given): a name without "_" prefix with the
\* value the class cxB resolves, a name with "_" prefix with the value the
\* class cxC resolves, and whatever that value holds by cxC as well
Filled(s, i, cxB, cxC, depth) ==
  IF i > Len(s) THEN <<>>
  ELSE LET m == IF s[i] = "{" THEN MatchAt(s, i, TRUE) ELSE NoMatch IN
       IF m.end = 0 THEN <<s[i]>> \o Filled(s, i + 1, cxB, cxC, depth)
       ELSE IF depth = 0
         THEN SubSeq(s, i, m.end) \o Filled(s, m.end + 1, cxB, cxC, depth)
       ELSE LET cx == IF IsPrefixed(m.group) THEN cxC ELSE cxB IN
            Filled(FindAttr(reg, cx, m.group), 1, cx, cxC, depth - 1)
              \o Filled(s, m.end + 1, cxB, cxC, depth)

RECURSIVE OriginOf(_)
\* the class whose body wrote the docstring that class c has
OriginOf(c) == IF reg[c].inh = -1 THEN c ELSE OriginOf(reg[c].inh)

\* the docstring of c is the text its origin wrote, {NAME} filled by the
\* origin and {_NAME} by c, and c saved the template it inherited unchanged
InheritedAsClaimed(c) ==
  /\ reg[c].META_DOC = reg[reg[c].inh].META_DOC
  /\ reg[c].doc = Filled(reg[OriginOf(c)].own, 1, CxOf(OriginOf(c)), CxOf(c),
                         MaxRounds)

----------------------------------------------------------------------------
(* SingleTurnDialog.__init__: the claim, under SpecDialog.                 *)

\* the constructor calls that the claim lets through
ValidCall ==
  \/ dlg.pretrained = "None"
  \/ dlg.pretrained = "gpt2" /\ dlg.tokenizer = "PretrainedTokenizer"

\* the names of the fields initialised so far, in the order of their
\* initialisation
FieldNames == [i \in 1..Len(dlg.fields) |-> dlg.fields[i][1]]

\* C6: the constructor raises ValueError for pretrained "gpt2" without a
\* PretrainedTokenizer and for every pretrained other than None and "gpt2",
\* before any field is initialised; only for None, or "gpt2" with a
\* PretrainedTokenizer, does it initialise "post" and then "resp" and set the
\* default field to ("train", "post").
C6_ValidatesBeforeLoading ==
  dlg.pc # "idle" =>
    /\ ~ValidCall => /\ dlg.pc \in {"validate", "ValueError"}
                     /\ dlg.fields = <<>>
                     /\ dlg.default = <<>>
    /\ ValidCall => dlg.pc # "ValueError"
    /\ dlg.pc = "ValueError" => dlg.fields = <<>> /\ dlg.default = <<>>
    /\ FieldNames \in {<<>>, <<"post">>, <<"post", "resp">>}
    /\ dlg.default # <<>> => dlg.pc = "done"
    /\ dlg.pc = "done" => /\ FieldNames = <<"post", "resp">>
                          /\ dlg.default = <<"train", "post">>
                          /\ dlg._pretrained = dlg.pretrained

\* C6 witness: "gpt2" without a PretrainedTokenizer raised ValueError
C6_Witness ==
  /\ dlg.pc = "ValueError"
  /\ dlg.pretrained = "gpt2"
  /\ dlg.tokenizer # "PretrainedTokenizer"

\* "gpt2" with a PretrainedTokenizer went through
C6_WitnessDone ==
  /\ dlg.pc = "done"
  /\ dlg.pretrained = "gpt2"
  /\ dlg.tokenizer = "PretrainedTokenizer"
  /\ dlg.vocab = "PretrainedVocab"

\* an unknown pretrained raised ValueError
C6_WitnessUnknown ==
  /\ dlg.pc = "ValueError"
  /\ dlg.pretrained \notin {"None", "gpt2"}

----------------------------------------------------------------------------
(* replace_unk: the claim, under SpecUnk.                                  *)

\* C7: the list returned has as many sentences as the input, each as long
\* as the input's; where the input holds unk_token it holds target_token,
\* elsewhere the input's token; the input is as it was; and with
\* target_token other than unk_token no unk_token is left.
C7_ReplaceUnk ==
  unk.pc = "returned" =>
    /\ Len(unk.result) = Len(unk.sentences)
    /\ \A k \in 1..Len(unk.sentences) :
         /\ Len(unk.result[k]) = Len(unk.sentences[k])
         /\ \A i \in 1..Len(unk.sentences[k]) :
              unk.result[k][i] = IF unk.sentences[k][i] = unk.unk_token
                                   THEN unk.target_token
                                   ELSE unk.sentences[k][i]
    /\ unk.target_token # unk.unk_token =>
         \A k \in 1..Len(unk.result) : \A i \in 1..Len(unk.result[k]) :
           unk.result[k][i] # unk.unk_token

\* C7 witness: a call that replaced one token of a sentence and kept
\* another
C7_Witness ==
  /\ unk.pc = "returned"
  /\ unk.target_token # unk.unk_token
  /\ \E k \in 1..Len(unk.sentences) : \E i, j \in 1..Len(unk.sentences[k]) :
       /\ unk.sentences[k][i] = unk.unk_token
       /\ unk.result[k][i] = unk.target_token
       /\ unk.sentences[k][j] # unk.unk_token
       /\ unk.result[k][j] = unk.sentences[k][j]

\* a call without target_token
C7_WitnessDefault ==
  /\ unk.pc = "returned"
  /\ unk.target_token = DefaultTarget
  /\ \E k \in 1..Len(unk.result) : DefaultTarget \in Range(unk.result[k])
  /\ \E k \in 1..Len(unk.sentences) : DefaultTarget \notin Range(unk.sentences[k])

----------------------------------------------------------------------------
(* The CLI's configuration: the claim, under SpecConfig.                   *)

\* values, one space between each two
SpaceJoined(text, values) ==
  /\ Len(text) = 2 * Len(values) - 1
  /\ \A i \in 1..Len(text) :
       text[i] = IF i % 2 = 1 THEN values[(i + 1) \div 2] ELSE " "

\* C8: config_load of a name that was never set is None; after `set name v1
\* ... vn` config_load(name) is the values joined by single spaces, whatever
\* was stored before, and the other names are as they were; `show` leaves
\* what is stored alone.
C8_ConfigRoundTrip ==
  /\ cfgOut.op = "none" =>
       \A n \in ConfigNames : config_load(cfg, n) = NoneDoc
  /\ cfgOut.op = "set" =>
       /\ SpaceJoined(config_load(cfg, cfgOut.name), cfgOut.values)
       /\ \A n \in ConfigNames \ {cfgOut.name} :
            config_load(cfg, n) = config_load(cfgOut.before, n)
  /\ cfgOut.op \in {"show", "load"} =>
       /\ cfg = cfgOut.before
       /\ cfgOut.value = config_load(cfg, cfgOut.name)
  /\ \A n \in ConfigNames : config_load(cfg, n) = NoneDoc <=> n \notin DOMAIN cfg

\* C8 witness: a second `set` of a name, with two values, over another value
C8_Witness ==
  /\ cfgOut.op = "set"
  /\ Len(cfgOut.values) = 2
  /\ cfgOut.name \in DOMAIN cfgOut.before
  /\ cfgOut.before[cfgOut.name] # cfg[cfgOut.name]
  /\ cfg[cfgOut.name] = <<"123", " ", "456">>

\* `show` after a `set`
C8_WitnessShow ==
  /\ cfgOut.op = "show"
  /\ cfgOut.value = <<"123">>

====
